---- MODULE Spec2Model ----
(***************************************************************************)
(* A model of the token load balancer of src/services/load_balancer.py.    *)
(*                                                                         *)
(* LoadBalancer.select_token is a coroutine on one asyncio event loop: the *)
(* statements between two suspension points run without interleaving, and  *)
(* every awaited Registry call (TokenManager / db) is a suspension point   *)
(* where other coroutines, the Registry's other writers and the clock may  *)
(* act.  Each action below is one such atomic stretch of a coroutine.      *)
(*                                                                         *)
(* Spec     one select_token call in full, in a changing environment.      *)
(* SpecRR   concurrent selections in round-robin mode on a pool of three   *)
(*          tokens, with the counter write-backs, resync and reset.        *)
(* SpecLock the exclusivity lock and the clock alone.                      *)
(* SpecCS   the round-robin selections step by step through the lock.      *)
(*                                                                         *)
(* Time is counted in hours: expiry_time, sora2_cooldown_until and the     *)
(* lock leases are instants of the clock `now`.                            *)
(***************************************************************************)
EXTENDS Integers, Sequences, FiniteSets, TLC

(***************************************************************************)
(* Bounds of the model.                                                    *)
(***************************************************************************)
\* Spec: changes the environment makes during a select_token call (clock
\* ticks, Registry updates, lock acquisitions and releases)
MaxEnv == 1
\* SpecLock: the same, for the lock alone
MaxLockSteps == 4
\* SpecRR: selections, resyncs and resets made during a behaviour
MaxOps == 3

(***************************************************************************)
(* Program constants.                                                      *)
(***************************************************************************)
\* Optional[datetime] = None: an unset expiry_time / sora2_cooldown_until
NoTime == 0
\* `if hours_until_expiry <= 24`
RefreshHorizon == 24
\* TokenLock(lock_timeout=config.image_timeout), in ticks of the model clock
LockTimeout == 1
\* asyncio.Lock(): unlocked
NoHolder == 0

VARIABLES
    registry,     \* the Registry: the token records, in listing order
    now,          \* datetime.now()
    locks,        \* TokenLock: token id -> instant of the lease, or NoTime
    hasCM,        \* self.concurrency_manager is not None
    round_robin_lock, \* self._round_robin_lock: the selection holding it
    usage_cache,  \* self._usage_cache
    pending,      \* running _async_increment_db_usage tasks, per token
    issued,       \* _async_increment_db_usage tasks ever created, per token
    renewing,     \* renewals triggered and not yet completed
    pc,           \* position of the select_token coroutine
    req,          \* its arguments
    toks,         \* all_tokens, then active_tokens
    idx,          \* position of the running for loop in toks
    avail,        \* available_tokens
    result,       \* the returned token record: <<>> is None
    outcome,      \* "token", "none", or the exception that left select_token
    envSteps,     \* changes made by the environment
    hist,         \* what the call has seen, kept for the properties
    rr,           \* SpecRR: the concurrent selections' positions and locals
    sync,         \* SpecRR: the sync_usage_cache_from_db coroutine
    rrHist        \* SpecRR: what the selections did, kept for the properties

vars == <<registry, now, locks, hasCM, round_robin_lock, usage_cache,
          pending, issued, renewing,
          pc, req, toks, idx, avail, result, outcome, envSteps, hist,
          rr, sync, rrHist>>

\* the token ids of the Registry select_token runs on in Spec
Tokens == 1..2
\* the token ids of the pool of SpecRR
Pool == 1..3
\* the token ids of the Registry
Ids == DOMAIN registry
\* instants a cooldown can be set to: two that pass within a run, one that
\* does not
CooldownTimes == {1, 2, 2 * RefreshHorizon}
\* an expiry on the edge of the horizon at the first instant
ExpirySoon == RefreshHorizon + 1
\* the expiry a completed renewal gives
ExpiryFar == 2 * RefreshHorizon + MaxEnv
\* the concurrent selections of SpecRR
Procs == {1, 2}

(***************************************************************************)
(* The Token record (core.models.Token), the fields the balancer reads.    *)
(***************************************************************************)
Token(i) ==
    [id |-> i, is_active |-> TRUE, plan_type |-> "chatgpt_pro",
     image_enabled |-> TRUE, video_enabled |-> TRUE, sora2_supported |-> TRUE,
     sora2_cooldown_until |-> NoTime, expiry_time |-> NoTime,
     usage_count |-> 0]

(***************************************************************************)
(* Registry reads.                                                         *)
(***************************************************************************)
\* token_manager.get_all_tokens()
get_all_tokens == registry

\* token_manager.get_active_tokens(): listLive()
get_active_tokens == SelectSeq(registry, LAMBDA t : t.is_active)

\* token_manager.db.get_token(token_id)
get_token(id) == registry[id]

(***************************************************************************)
(* select_token: the opportunistic renewal pass.                           *)
(***************************************************************************)
\* the renewal test without `token.is_active`
NeedsRefreshNoLiveCheck(t, clock) ==
    /\ t.expiry_time # NoTime
    /\ t.expiry_time - clock <= RefreshHorizon

\* token.is_active and token.expiry_time and hours_until_expiry <= 24
NeedsRefresh(t, clock) ==
    /\ t.is_active
    /\ t.expiry_time # NoTime
    /\ t.expiry_time - clock <= RefreshHorizon

\* the for loop over all_tokens up to its next await: the position of the
\* next token to renew, or Len + 1 when the loop is over
RECURSIVE NextToRenew(_, _, _)
NextToRenew(ts, i, clock) ==
    IF i > Len(ts) THEN i
    ELSE IF NeedsRefresh(ts[i], clock) THEN i
    ELSE NextToRenew(ts, i + 1, clock)

(***************************************************************************)
(* select_token: the filters.                                              *)
(***************************************************************************)
\* [token for token in active_tokens if token.plan_type == "chatgpt_pro"]
ProFilter(ts) == SelectSeq(ts, LAMBDA t : t.plan_type = "chatgpt_pro")

\* token.sora2_cooldown_until and token.sora2_cooldown_until <= datetime.now()
CooldownExpired(t, clock) ==
    /\ t.sora2_cooldown_until # NoTime
    /\ t.sora2_cooldown_until <= clock

\* the cooldown test left out
InCooldownNever(t, clock) == FALSE

\* token.sora2_cooldown_until and token.sora2_cooldown_until > datetime.now()
InCooldown(t, clock) ==
    /\ t.sora2_cooldown_until # NoTime
    /\ t.sora2_cooldown_until > clock

\* the video for loop from position i up to its next await (stop = TRUE: the
\* token at i needs refresh_sora2_remaining_if_cooldown_expired) or its end
RECURSIVE VideoScan(_, _, _, _)
VideoScan(ts, i, av, clock) ==
    IF i > Len(ts) THEN [i |-> i, avail |-> av, stop |-> FALSE]
    ELSE IF ~ts[i].video_enabled THEN VideoScan(ts, i + 1, av, clock)
    ELSE IF ~ts[i].sora2_supported THEN VideoScan(ts, i + 1, av, clock)
    ELSE IF CooldownExpired(ts[i], clock)
         THEN [i |-> i, avail |-> av, stop |-> TRUE]
    ELSE IF InCooldown(ts[i], clock) THEN VideoScan(ts, i + 1, av, clock)
    ELSE VideoScan(ts, i + 1, Append(av, ts[i]), clock)

\* is_locked without the timeout
is_lockedForever(id) == locks[id] # NoTime

\* TokenLock.is_locked: a lease held past its timeout counts as free
is_locked(id) ==
    /\ locks[id] # NoTime
    /\ now - locks[id] <= LockTimeout

\* ConcurrencyManager.can_use_image / can_use_video: a pure admission test
\* on counters their owners change at any time; `admitted` is the set of
\* token ids the controller has a free slot for when it is asked
can_use_image(admitted, id) == id \in admitted
can_use_video(admitted, id) == id \in admitted

\* the image branch's filter without the is_locked test
ImageFilterNoLock(ts, admitted) ==
    SelectSeq(ts, LAMBDA t : /\ t.image_enabled
                             /\ (hasCM => can_use_image(admitted, t.id)))

\* the image branch's filter
ImageFilter(ts, admitted) ==
    SelectSeq(ts, LAMBDA t : /\ t.image_enabled
                             /\ ~is_locked(t.id)
                             /\ (hasCM => can_use_image(admitted, t.id)))

\* the video branch's admission filter
VideoAdmission(ts, admitted) ==
    SelectSeq(ts, LAMBDA t : can_use_video(admitted, t.id))

\* the emptiness tests left out
IsEmptyNever(ts) == FALSE

\* `if not available_tokens: return None`, and the same test of
\* active_tokens and pro_tokens
IsEmpty(ts) == ts = <<>>

(***************************************************************************)
(* The usage cache and the round-robin selector.                           *)
(***************************************************************************)
\* _get_cached_usage without `if token_id not in self._usage_cache`
GetCachedUsageOverwrite(cache, token_id, db_usage) ==
    (token_id :> db_usage) @@ cache

\* _get_cached_usage: the cache after the call; the value returned is its
\* entry for token_id
GetCachedUsage(cache, token_id, db_usage) ==
    IF token_id \in DOMAIN cache THEN cache
    ELSE (token_id :> db_usage) @@ cache

\* the for loop taking each counter from the record, not from the cache
RECURSIVE ResolveUsageOfRecord(_, _, _, _)
ResolveUsageOfRecord(cands, i, cache, twu) ==
    IF i > Len(cands) THEN [cache |-> cache, twu |-> twu]
    ELSE LET c == GetCachedUsage(cache, cands[i].id, cands[i].usage_count)
         IN ResolveUsageOfRecord(cands, i + 1, c,
                Append(twu, [token |-> cands[i],
                             usage |-> cands[i].usage_count]))

\* the for loop building token_with_usage
RECURSIVE ResolveUsage(_, _, _, _)
ResolveUsage(cands, i, cache, twu) ==
    IF i > Len(cands) THEN [cache |-> cache, twu |-> twu]
    ELSE LET c == GetCachedUsage(cache, cands[i].id, cands[i].usage_count)
         IN ResolveUsage(cands, i + 1, c,
                Append(twu, [token |-> cands[i], usage |-> c[cands[i].id]]))

\* the insertion of a sort that is not stable: an element goes before the
\* elements with its own key
RECURSIVE InsertByUsageUnstable(_, _)
InsertByUsageUnstable(sorted, x) ==
    IF sorted = <<>> THEN <<x>>
    ELSE IF Head(sorted).usage < x.usage
         THEN <<Head(sorted)>> \o InsertByUsageUnstable(Tail(sorted), x)
         ELSE <<x>> \o sorted

\* list.sort(key=lambda x: x[1]) is stable: an element goes behind every
\* element with a key not larger than its own
RECURSIVE InsertByUsage(_, _)
InsertByUsage(sorted, x) ==
    IF sorted = <<>> THEN <<x>>
    ELSE IF Head(sorted).usage <= x.usage
         THEN <<Head(sorted)>> \o InsertByUsage(Tail(sorted), x)
         ELSE <<x>> \o sorted

\* the sort left out
SortByUsageSkipped(twu) == twu

\* token_with_usage.sort(key=lambda x: x[1])
RECURSIVE SortByUsage(_)
SortByUsage(twu) ==
    IF twu = <<>> THEN <<>>
    ELSE InsertByUsage(SortByUsage(SubSeq(twu, 1, Len(twu) - 1)), twu[Len(twu)])

\* the counter written back as it was read
IncrementLost(current_usage) == current_usage

\* self._usage_cache[selected_token.id] = current_usage + 1
Increment(current_usage) == current_usage + 1

\* the body with the sort in descending order: the most used candidate is
\* selected
RoundRobinMostUsed(cands, cache) ==
    LET r == ResolveUsage(cands, 1, cache, <<>>)
        sorted == SortByUsage(r.twu)
        last == sorted[Len(sorted)]
    IN [selected_token |-> last.token,
        current_usage |-> last.usage,
        token_with_usage |-> r.twu,
        cache |-> [r.cache EXCEPT ![last.token.id] = Increment(last.usage)]]

\* the body of `async with self._round_robin_lock` for a non-empty list: the
\* selected token, its pre-increment counter, the cache afterwards and the
\* token_with_usage list as built (before the sort)
RoundRobin(cands, cache) ==
    LET r == ResolveUsage(cands, 1, cache, <<>>)
        first == SortByUsage(r.twu)[1]
    IN [selected_token |-> first.token,
        current_usage |-> first.usage,
        token_with_usage |-> r.twu,
        cache |-> [r.cache EXCEPT ![first.token.id] = Increment(first.usage)]]

(***************************************************************************)
(* The initial state: LoadBalancer.__init__, and a Registry and a lock as   *)
(* earlier requests have left them.                                        *)
(***************************************************************************)
NoHist == [cooling |-> {}, cache |-> << >>, issued |-> << >>,
           renewed |-> {}, mode |-> "unread"]

NoReq == [image |-> FALSE, video |-> FALSE, pro |-> FALSE]

NoCall == [pc |-> "idle", cands |-> <<>>, token_with_usage |-> <<>>,
           selected_token |-> <<>>, current_usage |-> 0]

NoSync == [pc |-> "idle", all_tokens |-> <<>>]

InitBalancer(ids) ==
    /\ now = 1
    /\ round_robin_lock = NoHolder
    /\ pending = [t \in ids |-> 0]
    /\ issued = [t \in ids |-> 0]
    /\ renewing = {}
    /\ pc = "idle"
    /\ req = NoReq
    /\ toks = <<>>
    /\ idx = 0
    /\ avail = <<>>
    /\ result = <<>>
    /\ outcome = "idle"
    /\ envSteps = 0
    /\ hist = NoHist
    /\ sync = NoSync

\* the Registry and the leases a call can start on: all tokens live and
\* free; a token with a cooldown that has passed, or not yet; a token about
\* to expire; a token that is not live; a token that an earlier round-robin
\* selection has returned, counted and written back, still under its lease
Starts ==
    LET fresh == [i \in Tokens |-> Token(i)]
        free == [i \in Tokens |-> NoTime]
    IN {[registry |-> fresh, locks |-> free, cache |-> << >>],
        [registry |-> [fresh EXCEPT ![1].sora2_cooldown_until = 1],
         locks |-> free, cache |-> << >>],
        [registry |-> [fresh EXCEPT ![1].sora2_cooldown_until = 2],
         locks |-> free, cache |-> << >>],
        [registry |-> [fresh EXCEPT ![1].expiry_time = ExpirySoon],
         locks |-> free, cache |-> << >>],
        [registry |-> [fresh EXCEPT ![2].is_active = FALSE],
         locks |-> free, cache |-> << >>],
        [registry |-> [fresh EXCEPT ![1].usage_count = 1],
         locks |-> [free EXCEPT ![1] = 1], cache |-> 1 :> 1]}

Init ==
    /\ \E s \in Starts : /\ registry = s.registry
                         /\ locks = s.locks
                         /\ usage_cache = s.cache
    /\ InitBalancer(Tokens)
    /\ hasCM \in BOOLEAN
    /\ rr = << >>
    /\ rrHist = << >>

(***************************************************************************)
(* select_token.                                                           *)
(***************************************************************************)
envVars == <<registry, now, locks, hasCM, round_robin_lock, envSteps>>
rrVars == <<usage_cache, pending, issued>>
procVars == <<pc, req, toks, idx, avail, result, outcome, hist>>
poolVars == <<rr, sync, rrHist>>

\* `return None`
ReturnNone ==
    /\ pc' = "done"
    /\ result' = <<>>
    /\ outcome' = "none"

\* an exception leaves select_token: the function has no try / except
Raise(e) ==
    /\ pc' = "done"
    /\ result' = <<>>
    /\ outcome' = e

\* an awaited collaborator call raises
CollaboratorFails(at) ==
    /\ pc = at
    /\ Raise("collaborator_error")
    /\ UNCHANGED <<envVars, rrVars, renewing, req, toks, idx, avail, hist,
                   poolVars>>

\* the call: the arguments, and config.at_auto_refresh_enabled
SelectTokenCall(image, video, pro, auto) ==
    /\ pc = "idle"
    /\ req' = [image |-> image, video |-> video, pro |-> pro]
    /\ pc' = IF auto THEN "all_tokens" ELSE "active_tokens"
    /\ outcome' = "running"
    /\ hist' = [NoHist EXCEPT
                   !.cooling = {t \in Ids : InCooldown(registry[t], now)},
                   !.cache = usage_cache,
                   !.issued = issued]
    /\ UNCHANGED <<envVars, rrVars, renewing, toks, idx, avail, result,
                   poolVars>>

\* the renewal loop from position i up to its next await
RenewalLoop(ts, i) ==
    LET j == NextToRenew(ts, i, now)
    IN /\ toks' = ts
       /\ idx' = j
       /\ pc' = IF j > Len(ts) THEN "active_tokens" ELSE "renew"

\* all_tokens = await self.token_manager.get_all_tokens()
GetAllTokens ==
    /\ pc = "all_tokens"
    /\ RenewalLoop(get_all_tokens, 1)
    /\ UNCHANGED <<envVars, rrVars, renewing, req, avail, result, outcome,
                   hist, poolVars>>

\* await self.token_manager.auto_refresh_expiring_token(token.id): the
\* renewal is triggered and goes on in the background
AutoRefreshExpiringToken ==
    /\ pc = "renew"
    /\ renewing' = renewing \cup {toks[idx].id}
    /\ hist' = [hist EXCEPT
                   !.renewed = @ \cup {[token |-> toks[idx], at |-> now]}]
    /\ RenewalLoop(toks, idx + 1)
    /\ UNCHANGED <<envVars, rrVars, req, avail, result, outcome, poolVars>>

\* the stage after the video filter, up to `await get_scheduling_mode()`
AdmissionStage(active, admitted) ==
    LET filtered == req.image \/ (req.video /\ hasCM)
        cands == IF req.image THEN ImageFilter(active, admitted)
                 ELSE IF req.video /\ hasCM
                      THEN VideoAdmission(active, admitted)
                 ELSE active
    IN /\ avail' = cands
       /\ IF filtered /\ IsEmpty(cands)
          THEN ReturnNone
          ELSE /\ pc' = "mode"
               /\ UNCHANGED <<result, outcome>>

\* the video filter from position i, with available_tokens = av so far
VideoStage(ts, i, av, admitted) ==
    LET s == VideoScan(ts, i, av, now)
    IN IF s.stop
       THEN /\ pc' = "refresh"
            /\ toks' = ts
            /\ idx' = s.i
            /\ avail' = s.avail
            /\ UNCHANGED <<result, outcome>>
       ELSE IF IsEmpty(s.avail)
       THEN /\ ReturnNone
            /\ toks' = ts
            /\ idx' = s.i
            /\ avail' = s.avail
       ELSE /\ toks' = s.avail
            /\ idx' = s.i
            /\ AdmissionStage(s.avail, admitted)

\* active_tokens = await self.token_manager.get_active_tokens(), and the
\* code up to the next await
GetActiveTokens(admitted) ==
    /\ pc = "active_tokens"
    /\ LET active == get_active_tokens
           pro == IF req.pro THEN ProFilter(active) ELSE active
       IN IF IsEmpty(active) \/ (req.pro /\ IsEmpty(pro))
          THEN /\ ReturnNone
               /\ toks' = active
               /\ idx' = 0
               /\ avail' = <<>>
          ELSE IF req.video
          THEN VideoStage(pro, 1, <<>>, admitted)
          ELSE /\ toks' = pro
               /\ idx' = 0
               /\ AdmissionStage(pro, admitted)
    /\ UNCHANGED <<envVars, rrVars, renewing, req, hist, poolVars>>

\* await self.token_manager.refresh_sora2_remaining_if_cooldown_expired(id):
\* when the Registry's cooldown of the token is past, the quota is read
\* again: the cooldown is cleared, or a new one is set
RefreshSora2Remaining(cleared) ==
    /\ pc = "refresh"
    /\ LET id == toks[idx].id
       IN registry' =
            IF CooldownExpired(registry[id], now)
            THEN [registry EXCEPT ![id].sora2_cooldown_until =
                     IF cleared THEN NoTime ELSE now + 1]
            ELSE registry
    /\ pc' = "reread"
    /\ UNCHANGED <<now, locks, hasCM, round_robin_lock, envSteps, rrVars, renewing, req, toks,
                   idx, avail, result, outcome, hist, poolVars>>

\* the loop body going on with the record read before the refresh
GetTokenNotReloaded(admitted) ==
    /\ pc = "reread"
    /\ LET token == toks[idx]
       IN VideoStage(toks, idx + 1,
                     IF InCooldown(token, now) THEN avail
                     ELSE Append(avail, token),
                     admitted)
    /\ UNCHANGED <<envVars, rrVars, renewing, req, hist, poolVars>>

\* token = await self.token_manager.db.get_token(token.id), and the rest of
\* the loop body for the record read
GetToken(admitted) ==
    /\ pc = "reread"
    /\ LET token == get_token(toks[idx].id)
       IN VideoStage(toks, idx + 1,
                     IF InCooldown(token, now) THEN avail
                     ELSE Append(avail, token),
                     admitted)
    /\ UNCHANGED <<envVars, rrVars, renewing, req, hist, poolVars>>

\* the selection returns without creating the task
CreateIncrementTaskSkipped(id) ==
    /\ pending' = pending
    /\ issued' = issued

\* `await self._async_increment_db_usage(...)` in place of create_task: no
\* task is left running when the selection returns
CreateIncrementTaskAwaited(id) ==
    /\ pending' = pending
    /\ issued' = [issued EXCEPT ![id] = @ + 1]

\* asyncio.create_task(self._async_increment_db_usage(selected_token.id))
CreateIncrementTask(id) ==
    /\ pending' = [pending EXCEPT ![id] = @ + 1]
    /\ issued' = [issued EXCEPT ![id] = @ + 1]

\* _select_round_robin(available_tokens): called and returned without a
\* suspension, the lock being free whenever a coroutine reaches it
SelectRoundRobin(cands) ==
    IF IsEmpty(cands)
    THEN ReturnNone /\ UNCHANGED rrVars
    ELSE IF cands = <<>>
    THEN Raise("IndexError") /\ UNCHANGED rrVars
    ELSE LET r == RoundRobin(cands, usage_cache)
         IN /\ usage_cache' = r.cache
            /\ CreateIncrementTask(r.selected_token.id)
            /\ pc' = "done"
            /\ result' = <<r.selected_token>>
            /\ outcome' = "token"

\* random.choice(available_tokens)
RandomChoice(cands) ==
    /\ UNCHANGED rrVars
    /\ IF cands = <<>>
       THEN Raise("IndexError")
       ELSE \E i \in 1..Len(cands) :
               /\ pc' = "done"
               /\ result' = <<cands[i]>>
               /\ outcome' = "token"

\* the selection that follows get_scheduling_mode() with the mode it
\* returned left unread: every selection goes through _select_round_robin
GetSchedulingModeIgnored(mode) ==
    /\ pc = "mode"
    /\ hist' = [hist EXCEPT !.mode = mode]
    /\ SelectRoundRobin(avail)
    /\ UNCHANGED <<envVars, renewing, req, toks, idx, avail, poolVars>>

\* scheduling_mode = await self.token_manager.get_scheduling_mode(), and the
\* selection that follows it
GetSchedulingMode(mode) ==
    /\ pc = "mode"
    /\ hist' = [hist EXCEPT !.mode = mode]
    /\ IF mode = "round_robin"
       THEN SelectRoundRobin(avail)
       ELSE RandomChoice(avail)
    /\ UNCHANGED <<envVars, renewing, req, toks, idx, avail, poolVars>>

(***************************************************************************)
(* The background tasks.                                                   *)
(***************************************************************************)
\* _async_increment_db_usage: increment_usage_count succeeds, or raises and
\* is logged
AsyncIncrementDbUsage(id, ok) ==
    /\ pending[id] > 0
    /\ pending' = [pending EXCEPT ![id] = @ - 1]
    /\ registry' = IF ok THEN [registry EXCEPT ![id].usage_count = @ + 1]
                   ELSE registry
    /\ UNCHANGED <<now, locks, hasCM, round_robin_lock, envSteps, usage_cache, issued, renewing,
                   procVars, poolVars>>

\* a triggered renewal ends: the token has a new expiry, or the renewal failed
RenewalEnds(id, ok) ==
    /\ id \in renewing
    /\ renewing' = renewing \ {id}
    /\ registry' = IF ok THEN [registry EXCEPT ![id].expiry_time = ExpiryFar]
                   ELSE registry
    /\ UNCHANGED <<now, locks, hasCM, round_robin_lock, envSteps, rrVars, procVars, poolVars>>

(***************************************************************************)
(* The environment: the clock, the Registry's other writers, the owners of *)
(* the image workloads.  In Spec it acts while select_token runs: a change *)
(* made before the call is part of the initial state, and one made after   *)
(* the return changes nothing of the call.                                 *)
(***************************************************************************)
EnvStep(budget) ==
    /\ envSteps < budget
    /\ envSteps' = envSteps + 1

\* select_token is running
InCall == pc \notin {"idle", "done"}

Tick(budget) ==
    /\ EnvStep(budget)
    /\ now' = now + 1
    /\ UNCHANGED <<registry, locks, hasCM, round_robin_lock, rrVars, renewing, procVars,
                   poolVars>>

\* the values an update can give a token record
Updates(t) ==
    {[t EXCEPT !.is_active = ~@],
     [t EXCEPT !.plan_type = IF @ = "chatgpt_pro" THEN "chatgpt_plus"
                             ELSE "chatgpt_pro"],
     [t EXCEPT !.image_enabled = ~@],
     [t EXCEPT !.video_enabled = ~@],
     [t EXCEPT !.sora2_supported = ~@],
     [t EXCEPT !.expiry_time = IF @ = NoTime THEN ExpirySoon ELSE NoTime]}
    \cup {[t EXCEPT !.sora2_cooldown_until = c] : c \in CooldownTimes \cup {NoTime}}

\* the Registry updates a token record
RegistryUpdate(id, budget) ==
    /\ EnvStep(budget)
    /\ \E u \in Updates(registry[id]) \ {registry[id]} :
          registry' = [registry EXCEPT ![id] = u]
    /\ UNCHANGED <<now, locks, hasCM, round_robin_lock, rrVars, renewing, procVars, poolVars>>

\* TokenLock.acquire_lock returns True: no lease, or a lease past its timeout
acquire_lock(id) == ~is_locked(id)

LockAcquire(id, budget) ==
    /\ EnvStep(budget)
    /\ acquire_lock(id)
    /\ locks' = [locks EXCEPT ![id] = now]
    /\ UNCHANGED <<registry, now, hasCM, round_robin_lock, rrVars, renewing, procVars, poolVars>>

\* TokenLock.release_lock
LockRelease(id, budget) ==
    /\ EnvStep(budget)
    /\ locks[id] # NoTime
    /\ locks' = [locks EXCEPT ![id] = NoTime]
    /\ UNCHANGED <<registry, now, hasCM, round_robin_lock, rrVars, renewing, procVars, poolVars>>

Modes == {"round_robin", "random"}
CallSites == {"all_tokens", "renew", "active_tokens", "refresh", "reread", "mode"}

Next ==
    \/ \E image, video, pro, auto \in BOOLEAN :
          SelectTokenCall(image, video, pro, auto)
    \/ GetAllTokens
    \/ AutoRefreshExpiringToken
    \/ \E admitted \in SUBSET Ids : GetActiveTokens(admitted)
    \/ \E cleared \in BOOLEAN : RefreshSora2Remaining(cleared)
    \/ \E admitted \in SUBSET Ids : GetToken(admitted)
    \/ \E mode \in Modes : GetSchedulingMode(mode)
    \/ \E at \in CallSites : CollaboratorFails(at)
    \/ \E id \in Ids, ok \in BOOLEAN : AsyncIncrementDbUsage(id, ok)
    \/ \E id \in Ids, ok \in BOOLEAN : RenewalEnds(id, ok)
    \/ InCall /\ Tick(MaxEnv)
    \/ InCall /\ \E id \in Ids : RegistryUpdate(id, MaxEnv)
    \/ InCall /\ \E id \in Ids : LockAcquire(id, MaxEnv)
    \/ InCall /\ \E id \in Ids : LockRelease(id, MaxEnv)

Spec == Init /\ [][Next]_vars

(***************************************************************************)
(* SpecLock: the exclusivity lock and the clock.                           *)
(***************************************************************************)
NextLock ==
    \/ Tick(MaxLockSteps)
    \/ \E id \in Ids : LockAcquire(id, MaxLockSteps)
    \/ \E id \in Ids : LockRelease(id, MaxLockSteps)

SpecLock == Init /\ [][NextLock]_vars

(***************************************************************************)
(* SpecRR: concurrent selections in round-robin mode.  Each selection is a *)
(* select_token call whose scheduling mode reads "round_robin": it fetches *)
(* the base pool, keeps the candidates its filters leave (any sublist, in  *)
(* listing order) and, after the suspension of get_scheduling_mode, runs   *)
(* _select_round_robin on them.                                            *)
(***************************************************************************)
\* the usage_count values the pool's tokens start with: equal counters, and
\* the counters of the specification's scenario
InitialUsage == {<<0, 0, 0>>, <<3, 1, 1>>}

\* the sets of tokens the filters of a selection leave: the whole pool, and
\* two sets that overlap
Survivors == {{1, 2, 3}, {1, 2}, {2, 3}}

InitRR ==
    /\ \E u \in InitialUsage :
          /\ registry = [i \in Pool |-> [Token(i) EXCEPT !.usage_count = u[i]]]
          /\ rrHist = [usage0 |-> u, ops |-> 0,
                       returned |-> 0, slots |-> {}, full |-> TRUE,
                       disturbed |-> FALSE]
    /\ InitBalancer(Pool)
    /\ locks = [t \in Pool |-> NoTime]
    /\ usage_cache = << >>
    /\ hasCM = FALSE
    /\ rr = [p \in Procs |-> NoCall]

mainVars == <<now, locks, hasCM, round_robin_lock, envSteps, renewing, procVars>>

\* active_tokens = await get_active_tokens() and the filters of select_token:
\* the candidates are the live tokens with an id in `keep`
PoolFetch(p, keep) ==
    /\ rr[p].pc = "idle"
    /\ rrHist.ops < MaxOps
    /\ rr' = [rr EXCEPT ![p] = [NoCall EXCEPT
                 !.pc = "ready",
                 !.cands = SelectSeq(get_active_tokens,
                                     LAMBDA t : t.id \in keep)]]
    /\ rrHist' = [rrHist EXCEPT !.ops = @ + 1,
                                !.full = @ /\ keep = Ids]
    /\ UNCHANGED <<registry, mainVars, rrVars, sync>>

\* return await self._select_round_robin(available_tokens)
PoolSelect(p) ==
    /\ rr[p].pc = "ready"
    /\ IF IsEmpty(rr[p].cands)
       THEN /\ rr' = [rr EXCEPT ![p].pc = "done"]
            /\ UNCHANGED <<rrVars, rrHist>>
       ELSE LET r == RoundRobin(rr[p].cands, usage_cache)
            IN /\ usage_cache' = r.cache
               /\ CreateIncrementTask(r.selected_token.id)
               /\ rr' = [rr EXCEPT ![p] = [@ EXCEPT
                            !.pc = "done",
                            !.token_with_usage = r.token_with_usage,
                            !.selected_token = <<r.selected_token>>,
                            !.current_usage = r.current_usage]]
               /\ rrHist' = [rrHist EXCEPT
                    !.returned = @ + 1,
                    !.slots = @ \cup {<<r.selected_token.id, r.current_usage>>}]
    /\ UNCHANGED <<registry, mainVars, sync>>

\* the caller takes the result
PoolReturn(p) ==
    /\ rr[p].pc = "done"
    /\ rr' = [rr EXCEPT ![p] = NoCall]
    /\ UNCHANGED <<registry, mainVars, rrVars, sync, rrHist>>

\* sync_usage_cache_from_db: all_tokens = await get_all_tokens()
SyncRead ==
    /\ sync.pc = "idle"
    /\ rrHist.ops < MaxOps
    /\ rrHist' = [rrHist EXCEPT !.ops = @ + 1]
    /\ sync' = [pc |-> "loaded", all_tokens |-> get_all_tokens]
    /\ UNCHANGED <<registry, mainVars, rrVars, rr>>

\* the for loop of a resync that keeps the entries the cache has
SyncedCacheKeepsEntries(cache, all_tokens) ==
    [id \in DOMAIN cache \cup {all_tokens[i].id : i \in DOMAIN all_tokens} |->
        IF id \in DOMAIN cache THEN cache[id]
        ELSE LET i == CHOOSE i \in DOMAIN all_tokens : all_tokens[i].id = id
             IN all_tokens[i].usage_count]

\* the for loop of sync_usage_cache_from_db
SyncedCache(cache, all_tokens) ==
    [id \in DOMAIN cache \cup {all_tokens[i].id : i \in DOMAIN all_tokens} |->
        IF \E i \in DOMAIN all_tokens : all_tokens[i].id = id
        THEN LET i == CHOOSE i \in DOMAIN all_tokens : all_tokens[i].id = id
             IN all_tokens[i].usage_count
        ELSE cache[id]]

SyncWrite ==
    /\ sync.pc = "loaded"
    /\ usage_cache' = SyncedCache(usage_cache, sync.all_tokens)
    /\ sync' = NoSync
    /\ rrHist' = [rrHist EXCEPT !.disturbed = TRUE]
    /\ UNCHANGED <<registry, mainVars, pending, issued, rr>>

\* sync_usage_cache_from_db: get_all_tokens raises, the error is logged
SyncFails ==
    /\ sync.pc = "idle"
    /\ rrHist.ops < MaxOps
    /\ rrHist' = [rrHist EXCEPT !.ops = @ + 1]
    /\ UNCHANGED <<registry, mainVars, rrVars, rr, sync>>

\* reset_usage_cache: self._usage_cache.clear()
ResetUsageCache ==
    /\ rrHist.ops < MaxOps
    /\ rrHist' = [rrHist EXCEPT !.ops = @ + 1, !.disturbed = TRUE]
    /\ usage_cache' = << >>
    /\ UNCHANGED <<registry, mainVars, pending, issued, rr, sync>>

NextRR ==
    \/ \E p \in Procs, keep \in Survivors : PoolFetch(p, keep)
    \/ \E p \in Procs : PoolSelect(p)
    \/ \E p \in Procs : PoolReturn(p)
    \/ \E id \in Ids, ok \in BOOLEAN : AsyncIncrementDbUsage(id, ok)
    \/ SyncRead
    \/ SyncWrite
    \/ SyncFails
    \/ ResetUsageCache

SpecRR == InitRR /\ [][NextRR]_vars

\* SpecWB: SpecRR on an event loop that runs every task it was given: a
\* created _async_increment_db_usage task ends, with or without an error
SpecWB ==
    /\ SpecRR
    /\ WF_vars(\E id \in Ids, ok \in BOOLEAN : AsyncIncrementDbUsage(id, ok))

(***************************************************************************)
(* SpecCS: _select_round_robin step by step.  `async with` takes the lock, *)
(* the body runs, and leaving the block releases it.  The body has no      *)
(* await, so on the event loop the three steps follow each other without   *)
(* interleaving (PoolSelect); here other selections may run between them,  *)
(* which is what the lock is there for.  A selection that finds the lock   *)
(* taken waits until it is released.                                       *)
(***************************************************************************)
\* asyncio.Lock.release() leaves the lock held
ReleaseSkipped(holder) == holder

\* `async with self._round_robin_lock`: __aexit__ releases the lock
Release(holder) == NoHolder

\* `if not available_tokens: return None`, then __aenter__: acquire()
EnterSection(p) ==
    /\ rr[p].pc = "ready"
    /\ IF IsEmpty(rr[p].cands)
       THEN /\ rr' = [rr EXCEPT ![p].pc = "done"]
            /\ UNCHANGED round_robin_lock
       ELSE /\ round_robin_lock = NoHolder
            /\ round_robin_lock' = p
            /\ rr' = [rr EXCEPT ![p].pc = "locked"]
    /\ UNCHANGED <<registry, now, locks, hasCM, envSteps, renewing, procVars,
                   rrVars, sync, rrHist>>

\* the body of the block
SectionBody(p) ==
    /\ rr[p].pc = "locked"
    /\ LET r == RoundRobin(rr[p].cands, usage_cache)
       IN /\ usage_cache' = r.cache
          /\ rr' = [rr EXCEPT ![p] = [@ EXCEPT
                       !.pc = "selected",
                       !.token_with_usage = r.token_with_usage,
                       !.selected_token = <<r.selected_token>>,
                       !.current_usage = r.current_usage]]
    /\ UNCHANGED <<registry, mainVars, pending, issued, sync, rrHist>>

\* the end of the block, create_task and `return selected_token`
LeaveSection(p) ==
    /\ rr[p].pc = "selected"
    /\ round_robin_lock' = Release(round_robin_lock)
    /\ CreateIncrementTask(rr[p].selected_token[1].id)
    /\ rr' = [rr EXCEPT ![p].pc = "done"]
    /\ rrHist' = [rrHist EXCEPT
           !.returned = @ + 1,
           !.slots = @ \cup {<<rr[p].selected_token[1].id, rr[p].current_usage>>}]
    /\ UNCHANGED <<registry, now, locks, hasCM, envSteps, renewing, procVars,
                   usage_cache, sync>>

\* the write-backs the selections create stay pending here
NextCS ==
    \/ \E p \in Procs, keep \in Survivors : PoolFetch(p, keep)
    \/ \E p \in Procs : EnterSection(p)
    \/ \E p \in Procs : SectionBody(p)
    \/ \E p \in Procs : LeaveSection(p)
    \/ \E p \in Procs : PoolReturn(p)

\* the event loop runs a selection that can enter or leave the block, and
\* the body, which has no await, runs through once it is entered
SpecCS ==
    /\ InitRR
    /\ [][NextCS]_vars
    /\ WF_vars(\E p \in Procs : EnterSection(p))
    /\ WF_vars(\E p \in Procs : LeaveSection(p))
    /\ []<>(\A p \in Procs : rr[p].pc # "locked")

(***************************************************************************)
(* Properties of select_token (Spec).                                      *)
(***************************************************************************)
\* select_token has returned a token
Returned == pc = "done" /\ outcome = "token"

\* C1: the token record select_token returns has every capability the
\* request requires: image_enabled for an image request, video_enabled and
\* sora2_supported for a video request, plan_type chatgpt_pro for a pro
\* request, the record re-read after a cooldown refresh included.
C1_ReturnedTokenHasRequiredCapabilities ==
    Returned =>
        /\ req.image => result[1].image_enabled
        /\ req.video => result[1].video_enabled /\ result[1].sora2_supported
        /\ req.pro => result[1].plan_type = "chatgpt_pro"

\* C2 as stated: a token whose cooldown-until is in the future when
\* select_token is called for video is never the result of that call.
C2_CoolingAtCallNeverReturned ==
    (Returned /\ req.video) => result[1].id \notin hist.cooling

\* C2 as amended: the record a video selection returns has no cooldown-until
\* in the future at the moment it is returned (a token cooling at call time
\* can be returned once its cooldown has passed or was cleared during the
\* call).
C2_ReturnedTokenNotCooling ==
    (Returned /\ req.video) =>
        \/ result[1].sora2_cooldown_until = NoTime
        \/ result[1].sora2_cooldown_until <= now

\* C2: a video selection has returned a token other than one that was cooling
\* when it was called.
C2_Witness ==
    /\ Returned
    /\ req.video
    /\ hist.cooling # {}
    /\ \E id \in hist.cooling : InCooldown(registry[id], now)
    /\ result[1].id \notin hist.cooling

\* C7: when the live-token pool is empty or a filtering stage leaves no
\* candidate, select_token returns None and raises no error of its own, and
\* a call that returns None has changed no usage counter and created no
\* increment task.
C7_ExhaustionReturnsNone ==
    pc = "done" =>
        /\ outcome # "IndexError"
        /\ (avail = <<>> /\ outcome # "collaborator_error") => outcome = "none"
        /\ outcome = "none" =>
              /\ avail = <<>>
              /\ usage_cache = hist.cache
              /\ issued = hist.issued
              /\ pending = hist.issued

\* C7: a call on a non-empty live pool has returned None from the image
\* filter.
C7_Witness ==
    /\ pc = "done"
    /\ outcome = "none"
    /\ req.image
    /\ toks # <<>>
    /\ avail = <<>>

\* C8: a caller of select_token sees a token or None: no collaborator error
\* leaves select_token.
C8_OnlyTokenOrNone ==
    pc = "done" => outcome \in {"token", "none"}

\* C9: the token record select_token returns is live (is_active).
C9_ReturnedTokenIsLive ==
    Returned => result[1].is_active

C13_ReturnedImageTokenNotLocked ==
    (Returned /\ req.image) => ~is_locked(result[1].id)

\* C13 as amended: the candidates the image filter keeps are not lock-held
\* when the filter examines them, and the token an image selection returns
\* is one of them (the lease can be taken while the selection waits for the
\* scheduling mode).
C13_ImageFilterDropsLocked ==
    [][/\ (req.image /\ pc' = "mode" /\ pc # "mode")
            => \A i \in DOMAIN avail' : ~is_locked(avail'[i].id)
       /\ (req.image /\ pc = "mode" /\ pc' = "done" /\ outcome' = "token")
            => \E i \in DOMAIN avail : avail[i] = result'[1]]_vars

\* C13: an image selection has returned a token while another token, live
\* and image-capable, was lock-held all through the call.
C13_Witness ==
    /\ Returned
    /\ req.image
    /\ envSteps = 0
    /\ \E id \in Ids :
          /\ is_locked(id)
          /\ registry[id].is_active
          /\ registry[id].image_enabled
          /\ id # result[1].id

\* the candidates the video loop has kept after a step that leaves it
\* waiting for a refresh or for the scheduling mode
Kept == IF pc' = "refresh" THEN avail' ELSE toks'

\* C14: in a video selection a token whose cooldown-until is set and past is
\* not kept on the record first read: a refresh is issued for it, then it is
\* read again, and it is kept exactly when the record read again is not in
\* cooldown, as that record.
C14_RefreshBeforeReread ==
    [][/\ (pc' = "refresh" /\ pc # "refresh")
            => req.video /\ CooldownExpired(toks'[idx'], now)
       /\ (pc' = "reread" /\ pc # "reread")
            => pc = "refresh" /\ toks' = toks /\ idx' = idx
       /\ (req.video /\ pc = "active_tokens" /\ pc' \in {"refresh", "mode"})
            => \A i \in DOMAIN Kept : ~CooldownExpired(Kept[i], now)
       /\ (pc = "reread" /\ pc' \in {"refresh", "mode"})
            => LET token == registry[toks[idx].id]
                   n == Len(avail)
                   m == IF InCooldown(token, now) THEN n ELSE n + 1
               IN /\ Len(Kept) >= m
                  /\ SubSeq(Kept, 1, n) = avail
                  /\ m > n => Kept[m] = token
                  /\ \A i \in (m + 1)..Len(Kept) :
                        /\ ~CooldownExpired(Kept[i], now)
                        /\ \E j \in (idx + 1)..Len(toks) : toks[j] = Kept[i]]_vars

\* C14: a video selection has returned a token that was in cooldown when it
\* was called; only the clock has moved, so the token was kept on the record
\* read after the refresh.
C14_Witness ==
    /\ Returned
    /\ req.video
    /\ result[1].id \in hist.cooling
    /\ envSteps = 1
    /\ now = 2
    /\ result[1].sora2_cooldown_until = NoTime

\* select_token has ended after get_scheduling_mode returned "random"
RandomDone == pc = "done" /\ hist.mode = "random"

\* C18: a selection in random scheduling mode returns one of the candidates
\* its filters left, on the image branch, the video branch with an admission
\* controller and the default branch alike, and leaves the usage cache as
\* the call found it (no entry created, none incremented), has created no
\* _async_increment_db_usage task and has not taken the round-robin lock.
C18_RandomModeFrame ==
    RandomDone
       => /\ outcome = "token"
          /\ \E i \in DOMAIN avail : result = <<avail[i]>>
          /\ usage_cache = hist.cache
          /\ issued = hist.issued
          /\ \A id \in Ids : pending[id] = 0
          /\ round_robin_lock = NoHolder

\* C18: a random selection has returned the token the cache counts as used
\* rather than the unused one round-robin would have taken, on the default
\* branch, and the cache entry is as it was.
C18_Witness ==
    /\ RandomDone
    /\ ~req.image /\ ~(req.video /\ hasCM)
    /\ Len(avail) = 2
    /\ result[1].id \in DOMAIN usage_cache
    /\ \E i \in DOMAIN avail : avail[i].id \notin DOMAIN usage_cache

(***************************************************************************)
(* Properties of the round-robin selector (SpecRR).                        *)
(***************************************************************************)
\* the cached counters' total gain over the counters the pool started with
RECURSIVE CacheGain(_)
CacheGain(ids) ==
    IF ids = {} THEN 0
    ELSE LET id == CHOOSE id \in ids : TRUE
         IN usage_cache[id] - rrHist.usage0[id] + CacheGain(ids \ {id})

\* C3: with no resync and no reset, the cached counters sum to their initial
\* sum plus the number of selections that have returned a token, and no two
\* selections took the same pre-increment counter of the same token.
C3_NoIncrementLost ==
    ~rrHist.disturbed =>
        /\ CacheGain(DOMAIN usage_cache) = rrHist.returned
        /\ Cardinality(rrHist.slots) = rrHist.returned

\* C3: two selections running at the same time on candidates with equal
\* initial counters have both returned.
C3_Witness ==
    /\ ~rrHist.disturbed
    /\ \A p \in Procs :
          /\ rr[p].pc = "done"
          /\ rr[p].selected_token # <<>>
          /\ \A i, j \in DOMAIN rr[p].cands :
                rrHist.usage0[rr[p].cands[i].id] = rrHist.usage0[rr[p].cands[j].id]
    /\ rr[1].cands = rr[2].cands
    /\ rrHist.returned = 2

\* the counter the selector resolves for a candidate: the cached one, or the
\* record's usage_count when the token has no cache entry
Counter(t) ==
    IF t.id \in DOMAIN usage_cache THEN usage_cache[t.id] ELSE t.usage_count

\* C4: a round-robin selection over candidates with pairwise distinct
\* counters returns the candidate with the strictly smallest counter; after
\* it that candidate's cached counter is its old value + 1 and every other
\* candidate's counter, and every other cache entry, is what it was.
C4_DistinctCounters ==
    [][\A p \in DOMAIN rr :
         LET cands == rr[p].cands
             ids == {cands[i].id : i \in DOMAIN cands}
         IN (/\ rr[p].pc = "ready"
             /\ rr'[p].pc = "done"
             /\ cands # <<>>
             /\ \A i, j \in DOMAIN cands :
                   i # j => Counter(cands[i]) # Counter(cands[j]))
            => LET sel == rr'[p].selected_token[1]
               IN /\ \E i \in DOMAIN cands : cands[i] = sel
                  /\ \A i \in DOMAIN cands :
                        cands[i].id # sel.id
                            => /\ Counter(sel) < Counter(cands[i])
                               /\ usage_cache'[cands[i].id] = Counter(cands[i])
                  /\ usage_cache'[sel.id] = Counter(sel) + 1
                  /\ \A id \in Ids \ ids :
                        /\ id \in DOMAIN usage_cache' <=> id \in DOMAIN usage_cache
                        /\ id \in DOMAIN usage_cache
                              => usage_cache'[id] = usage_cache[id]]_vars

\* C4: a selection over several candidates with pairwise distinct counters
\* has returned.
C4_Witness ==
    \E p \in Procs :
        /\ rr[p].pc = "done"
        /\ Len(rr[p].token_with_usage) = 3
        /\ \A i, j \in DOMAIN rr[p].token_with_usage :
              i # j => rr[p].token_with_usage[i].usage
                           # rr[p].token_with_usage[j].usage
        /\ rr[p].selected_token[1].id = 3

\* the first position of token_with_usage that holds the minimum counter
FirstMinimum(twu) ==
    CHOOSE k \in DOMAIN twu :
        /\ \A i \in DOMAIN twu : twu[k].usage <= twu[i].usage
        /\ \A i \in 1..(k - 1) : twu[i].usage > twu[k].usage

\* C5: among the candidates sharing the minimum counter the first in input
\* order is selected; on the pool [T1=3, T2=1, T3=1] successive selections
\* over the whole pool return T2, T3, T2 and leave the counters 3, 3, 2.
C5_TiesByInputOrder ==
    /\ \A p \in DOMAIN rr :
          (rr[p].pc = "done" /\ rr[p].selected_token # <<>>)
              => LET twu == rr[p].token_with_usage
                     k == FirstMinimum(twu)
                 IN /\ rr[p].selected_token[1] = twu[k].token
                    /\ rr[p].current_usage = twu[k].usage
    /\ (/\ rrHist # << >>
        /\ rrHist.usage0 = <<3, 1, 1>>
        /\ rrHist.full
        /\ ~rrHist.disturbed)
       => /\ rrHist.returned = 0 => usage_cache = << >>
          /\ rrHist.returned = 1 => usage_cache = <<3, 2, 1>>
          /\ rrHist.returned = 2 => usage_cache = <<3, 2, 2>>
          /\ rrHist.returned = 3 => usage_cache = <<3, 3, 2>>

\* C5: three selections over the pool [T1=3, T2=1, T3=1] have returned, the
\* last of them choosing T2 over T3 at equal counters.
C5_Witness ==
    /\ rrHist.usage0 = <<3, 1, 1>>
    /\ rrHist.full
    /\ ~rrHist.disturbed
    /\ rrHist.returned = 3
    /\ usage_cache = <<3, 3, 2>>
    /\ \E p \in Procs :
          /\ rr[p].pc = "done"
          /\ rr[p].selected_token[1].id = 2
          /\ rr[p].current_usage = 2
          /\ rr[p].token_with_usage[3].usage = 2

\* the step is the for loop of a resync
ResyncStep == sync.pc = "loaded" /\ sync'.pc = "idle"

\* the step is a reset: of the steps that leave the selections and the resync
\* where they are, the one that empties the cache
ResetStep ==
    /\ rr' = rr
    /\ sync' = sync
    /\ rrHist'.ops # rrHist.ops
    /\ usage_cache' = << >>

\* the step is a round-robin selection that returns token id
SelectionOf(id) ==
    \E p \in DOMAIN rr :
        /\ rr[p].pc = "ready"
        /\ rr'[p].pc = "done"
        /\ rr'[p].selected_token # <<>>
        /\ rr'[p].selected_token[1].id = id

\* C11: for a token that has a cache entry, _get_cached_usage leaves the
\* cache as it is whatever Registry value it is passed; and a step other than
\* a resync or a reset keeps every entry, changing one only by +1 and only
\* when it is a round-robin selection of that token.
C11_CacheNeverOverwritten ==
    /\ [](\A id \in DOMAIN usage_cache :
            \A db_usage \in 0..(usage_cache[id] + 1) :
                GetCachedUsage(usage_cache, id, db_usage) = usage_cache)
    /\ [][(~ResyncStep /\ ~ResetStep)
            => \A id \in DOMAIN usage_cache :
                  /\ id \in DOMAIN usage_cache'
                  /\ \/ usage_cache'[id] = usage_cache[id]
                     \/ /\ usage_cache'[id] = usage_cache[id] + 1
                        /\ SelectionOf(id)]_vars

\* C11: with no resync and no reset, a selection was passed a Registry
\* counter that differs from the entry the token already had, and the entry
\* it did not select is still what it was.
C11_Witness ==
    /\ ~rrHist.disturbed
    /\ \E p \in Procs :
          /\ rr[p].pc = "done"
          /\ \E i \in DOMAIN rr[p].token_with_usage :
                LET e == rr[p].token_with_usage[i]
                IN /\ e.token.usage_count # e.usage
                   /\ e.token.id # rr[p].selected_token[1].id
                   /\ usage_cache[e.token.id] = e.usage

\* C15: a round-robin selection returns its token with the write-back it
\* created still running; and the end of a write-back, failed or not, takes
\* one task off, creates none, and leaves the cached counters and every
\* selection's position and result as they are.
C15_WriteBackNeverBlocks ==
    [][/\ \A p \in DOMAIN rr :
            (rr[p].pc = "ready" /\ rr'[p].pc = "done"
                                /\ rr'[p].selected_token # <<>>)
                => LET id == rr'[p].selected_token[1].id
                   IN /\ pending'[id] = pending[id] + 1
                      /\ registry' = registry
       /\ \A id \in Ids :
            pending'[id] < pending[id]
                => /\ pending'[id] = pending[id] - 1
                   /\ issued' = issued
                   /\ usage_cache' = usage_cache
                   /\ rr' = rr
                   /\ \/ registry' = registry
                      \/ registry' = [registry EXCEPT
                                         ![id].usage_count = @ + 1]]_vars

\* C15: a selection has returned a token, the write-back it created has
\* failed, and the cached counter still holds the increment.
C15_Witness ==
    /\ ~rrHist.disturbed
    /\ rrHist.returned = 1
    /\ \E p \in Procs :
          /\ rr[p].pc = "done"
          /\ rr[p].selected_token # <<>>
          /\ LET id == rr[p].selected_token[1].id
             IN /\ issued[id] = 1
                /\ pending[id] = 0
                /\ registry[id].usage_count = rrHist.usage0[id]
                /\ usage_cache[id] = rrHist.usage0[id] + 1

\* C16 as stated: when a resync completes, every token of the Registry has
\* a cache entry equal to the Registry's current counter for it.
C16_ResyncEqualsRegistry ==
    [][ResyncStep
         => \A id \in Ids :
               /\ id \in DOMAIN usage_cache'
               /\ usage_cache'[id] = registry'[id].usage_count]_vars

\* C16 as amended: when a resync completes, every token of the records
\* get_all_tokens returned to it has a cache entry equal to the counter of
\* its record (the Registry's counter when it was read); a reset leaves the
\* cache empty; and a round-robin selection seeds the entry of a candidate
\* that has none from the counter of the candidate's record.
C16_ResyncAndReset ==
    [][/\ ResyncStep
            => /\ \A id \in Ids : id \in DOMAIN usage_cache'
               /\ \A i \in DOMAIN sync.all_tokens :
                     usage_cache'[sync.all_tokens[i].id]
                         = sync.all_tokens[i].usage_count
       /\ (~rrHist.disturbed /\ rrHist'.disturbed /\ sync' = sync)
            => usage_cache' = << >>
       /\ \A p \in DOMAIN rr :
            (rr[p].pc = "ready" /\ rr'[p].pc = "done")
                => \A i \in DOMAIN rr[p].cands :
                      LET c == rr[p].cands[i]
                      IN c.id \notin DOMAIN usage_cache
                            => usage_cache'[c.id] =
                                 IF rr'[p].selected_token[1].id = c.id
                                 THEN c.usage_count + 1
                                 ELSE c.usage_count]_vars

\* C16: a resync has completed after one selection over a part of the pool,
\* and the write-back of that selection has left a cached counter behind the
\* Registry's.
C16_Witness ==
    /\ rrHist.disturbed
    /\ rrHist.returned = 1
    /\ ~rrHist.full
    /\ rrHist.ops = 2
    /\ sync.pc = "idle"
    /\ DOMAIN usage_cache = Pool
    /\ \E id \in Pool :
          /\ pending[id] = 0
          /\ usage_cache[id] < registry[id].usage_count

\* the selection p has returned a token and its caller has not taken it yet
Selected(p) == rr[p].pc = "done" /\ rr[p].selected_token # <<>>

\* the position in cands of the first candidate with the minimum counter
FirstOfLeastUsed(cands) ==
    CHOOSE k \in DOMAIN cands :
        /\ \A i \in DOMAIN cands : Counter(cands[k]) <= Counter(cands[i])
        /\ \A i \in 1..(k - 1) : Counter(cands[i]) > Counter(cands[k])

\* candidate c comes before every other candidate of cands in the order
\* (counter, position)
LeastUsedFirst(c, cands) ==
    \E k \in DOMAIN cands :
        /\ cands[k].id = c.id
        /\ \A i \in DOMAIN cands :
              i # k => \/ Counter(cands[k]) < Counter(cands[i])
                       \/ Counter(cands[k]) = Counter(cands[i]) /\ k < i

\* C17 as stated: of two concurrent round-robin selections over overlapping
\* candidate sets the second picks a token other than the first's if and
\* only if the candidates' counters differ when it selects.
C17_DifferentIffCountersDiffer ==
    [][\A p, q \in DOMAIN rr :
         LET all == rr[p].cands \o rr[q].cands
         IN (/\ p # q
             /\ Selected(p)
             /\ rr[q].pc = "ready" /\ rr'[q].pc = "done"
             /\ \E i \in DOMAIN rr[p].cands, j \in DOMAIN rr[q].cands :
                   rr[p].cands[i].id = rr[q].cands[j].id)
            => (rr'[q].selected_token[1].id # rr[p].selected_token[1].id
                  <=> \E i, j \in DOMAIN all :
                         Counter(all[i]) # Counter(all[j]))]_vars

\* C17 as amended: each round-robin selection returns the first, in its own
\* input order, of its candidates with the least cached counter at the time
\* it selects, whichever selection arrived first; so of two concurrent
\* selections the second picks the first's token if and only if that token,
\* after the first's increment, still comes first among the second's
\* candidates by counter and then by input order.
C17_LeastUsedThenInputOrder ==
    [][\A q \in DOMAIN rr :
         (rr[q].pc = "ready" /\ rr'[q].pc = "done" /\ rr[q].cands # <<>>)
            => /\ rr'[q].selected_token[1]
                    = rr[q].cands[FirstOfLeastUsed(rr[q].cands)]
               /\ \A p \in DOMAIN rr \ {q} :
                     Selected(p)
                        => (rr'[q].selected_token[1].id
                                = rr[p].selected_token[1].id
                              <=> LeastUsedFirst(rr[p].selected_token[1],
                                                 rr[q].cands))]_vars

\* C17: two concurrent selections over the same two candidates have picked
\* the same token, the second after the first's increment, while the other
\* candidate has a different counter.
C17_Witness ==
    /\ ~rrHist.disturbed
    /\ Selected(1)
    /\ Selected(2)
    /\ rr[1].cands = rr[2].cands
    /\ Len(rr[1].cands) = 2
    /\ rr[1].selected_token[1].id = rr[2].selected_token[1].id
    /\ rr[2].current_usage = rr[1].current_usage + 1
    /\ \E i \in DOMAIN rr[2].token_with_usage :
          rr[2].token_with_usage[i].usage > rr[2].current_usage

\* every increment_usage_count call that has ended so far has succeeded:
\* the selections' write-backs are the only writers of usage_count
AllSucceeded ==
    \A id \in Ids :
        registry[id].usage_count - rrHist.usage0[id] = issued[id] - pending[id]

\* C19: a round-robin selection that returns a token creates exactly one
\* _async_increment_db_usage task, for the returned token, whose cached
\* counter it has incremented, and nothing else creates one; so with no
\* resync and no reset the cached counter of a token minus the counter it
\* was seeded with equals the number of tasks created for it; and if every
\* task ends successfully the Registry's counters end up equal to the cached
\* ones.
C19_OneWriteBackPerSelection ==
    /\ [](~rrHist.disturbed =>
            \A id \in Ids :
               issued[id] = IF id \in DOMAIN usage_cache
                            THEN usage_cache[id] - rrHist.usage0[id]
                            ELSE 0)
    /\ [][/\ \A p \in DOMAIN rr :
               (rr[p].pc = "ready" /\ rr'[p].pc = "done")
                  => IF rr'[p].selected_token = <<>>
                     THEN issued' = issued /\ pending' = pending
                     ELSE LET id == rr'[p].selected_token[1].id
                          IN /\ issued' = [issued EXCEPT ![id] = @ + 1]
                             /\ pending' = [pending EXCEPT ![id] = @ + 1]
                             /\ usage_cache'[id] = rr'[p].current_usage + 1
          /\ issued' # issued
                => \E p \in DOMAIN rr :
                      rr[p].pc = "ready" /\ rr'[p].pc = "done"]_vars
    /\ <>[](~rrHist.disturbed /\ AllSucceeded)
          => <>[](\A id \in DOMAIN usage_cache :
                     registry[id].usage_count = usage_cache[id])

\* C19: two selections have returned the same token, both write-backs have
\* ended successfully, and the Registry's counter has caught up with the
\* cached one.
C19_Witness ==
    /\ ~rrHist.disturbed
    /\ AllSucceeded
    /\ \A id \in Ids : pending[id] = 0
    /\ \E id \in DOMAIN usage_cache :
          /\ issued[id] = 2
          /\ registry[id].usage_count = usage_cache[id]
          /\ usage_cache[id] = rrHist.usage0[id] + 2

\* every selection so far was over the whole pool, whose counters were equal
\* at the start, and no resync or reset has run
FixedEqualPool ==
    /\ ~rrHist.disturbed
    /\ rrHist.full
    /\ \A i, j \in Pool : rrHist.usage0[i] = rrHist.usage0[j]

\* C20: over a fixed candidate set whose counters start equal, with no
\* resync and no reset, the cached counters of any two candidates differ by
\* at most 1 after any number of round-robin selections, sequential or
\* concurrent: once a selection has run, every candidate has a counter and
\* none is more than one selection behind another.
C20_EvenSpread ==
    FixedEqualPool
       => /\ DOMAIN usage_cache \in {{}, Pool}
          /\ \A i, j \in DOMAIN usage_cache :
                usage_cache[i] - usage_cache[j] \in {-1, 0, 1}

\* C20: selections over the whole pool, two of them in flight at once, have
\* returned a token each and left the counters of two candidates one apart,
\* the first in input order being ahead.
C20_Witness ==
    /\ FixedEqualPool
    /\ rrHist.returned >= 2
    /\ \A p \in DOMAIN rr : Selected(p)
    /\ usage_cache[1] = usage_cache[3] + 1
    /\ usage_cache[2] = usage_cache[1]

(***************************************************************************)
(* Properties of the round-robin critical section (SpecCS).                *)
(***************************************************************************)
\* the positions of a selection inside `async with self._round_robin_lock`
InSection == {"locked", "selected"}

\* C12: the round-robin lock is held exactly by the selection that is inside
\* the block, so never by one that waits on a collaborator (before the block)
\* or that has returned; and every selection that waits for the lock gets it
\* and returns.
C12_CriticalSection ==
    /\ [](\A p \in Procs : round_robin_lock = p <=> rr[p].pc \in InSection)
    /\ \A p \in Procs : (rr[p].pc = "ready") ~> (rr[p].pc = "done")

\* C12: a selection waits for the lock while another one holds it.
C12_Witness ==
    \E p, q \in Procs :
        /\ round_robin_lock = p
        /\ rr[q].pc = "ready"
        /\ ~IsEmpty(rr[q].cands)

(***************************************************************************)
(* Properties of the exclusivity lock (SpecLock).                          *)
(***************************************************************************)
\* a lease that has been held longer than the lock timeout
LeaseExpired(id) == locks[id] # NoTime /\ now - locks[id] > LockTimeout

\* C6: a lease is granted for a token only when the token has no lease or a
\* lease held longer than the lock timeout, so two acquire calls never both
\* succeed while the first lease is unexpired; and for a lease held longer
\* than the timeout is_locked is false and acquire succeeds.
C6_ExclusivityLock ==
    /\ [](\A id \in Ids : LeaseExpired(id) => ~is_locked(id) /\ acquire_lock(id))
    /\ [][\A id \in Ids :
            (locks'[id] # NoTime /\ locks'[id] # locks[id])
                => (locks[id] = NoTime \/ LeaseExpired(id))]_vars

\* C6: a lease has been held longer than the timeout without release.
C6_Witness == \E id \in Ids : LeaseExpired(id)

====
